---- MODULE Spec2Model ----
(***************************************************************************)
(* Model of scripts/stolas_apr.py: the block-by-timestamp locator          *)
(* (find_block_by_timestamp), the PPS reader (get_pps_at_block) and the    *)
(* APR computation and report of main.                                     *)
(*                                                                         *)
(* The chain is the function `blocks` from block number to timestamp; it   *)
(* only grows (AppendBlock).  Every RPC call may fail.  Python floats are  *)
(* modelled as rationals rounded to MantBits significant bits, round half  *)
(* to even, with an unbounded exponent.                                    *)
(***************************************************************************)
EXTENDS Integers, Sequences, FiniteSets, TLC

\* ---------------------------------------------------------------- bounds
MaxHead == 3        \* highest block number the generated chains reach
MaxTick == 3        \* timestamps are TsBase + k * TsStep, k in 0..MaxTick
TsBase == 1000000   \* timestamp of the earliest possible block
MaxAmount == 1      \* totalAssets / totalSupply range over 0..MaxAmount in a run of main
AprMaxAmount == 3   \* and over 0..AprMaxAmount where the APR computation is run alone
MantBits == 6       \* significant bits kept by the float rounding

\* ------------------------------------------------------- program constants
LOOKBACK_DAYS == 7
LOOKBACK_SECONDS == LOOKBACK_DAYS * 24 * 60 * 60
SECONDS_PER_DAY == 24 * 60 * 60

None == <<>>

\* ------------------------------------------------------------ float model
RECURSIVE GCD(_, _)
GCD(a, b) == IF b = 0 THEN a ELSE GCD(b, a % b)

Abs(x) == IF x < 0 THEN -x ELSE x

RECURSIVE Pow2(_)
Pow2(k) == IF k = 0 THEN 1 ELSE 2 * Pow2(k - 1)

\* the rational n/d in lowest terms with a positive denominator
Rat(n, d) ==
    LET s == IF d < 0 THEN -1 ELSE 1
        g == GCD(Abs(n), Abs(d))
    IN  <<(s * n) \div g, (s * d) \div g>>

\* a positive rational a/d rounded to MantBits significant bits, half to even
RECURSIVE RoundPos(_, _)
RoundPos(a, d) ==
    IF a \div d >= Pow2(MantBits)
    THEN LET r == RoundPos(a, 2 * d) IN Rat(2 * r[1], r[2])
    ELSE IF a \div d < Pow2(MantBits - 1)
    THEN LET r == RoundPos(2 * a, d) IN Rat(r[1], 2 * r[2])
    ELSE LET q == a \div d
             rem == a % d
             up == (2 * rem > d) \/ (2 * rem = d /\ q % 2 = 1)
         IN  <<IF up THEN q + 1 ELSE q, 1>>

\* the float nearest to n/d (d # 0)
FRound(n, d) ==
    LET x == Rat(n, d)
    IN  IF x[1] = 0 THEN <<0, 1>>
        ELSE IF x[1] < 0
        THEN LET r == RoundPos(-x[1], x[2]) IN <<-r[1], r[2]>>
        ELSE RoundPos(x[1], x[2])

FLit(n) == FRound(n, 1)                                  \* a literal such as 365.0
IntTrueDiv(a, b) == FRound(a, b)                         \* int / int, b # 0
FDiv(x, y) == FRound(x[1] * y[2], x[2] * y[1])           \* float / float, y # 0
FMul(x, y) == FRound(x[1] * y[1], x[2] * y[2])           \* float * float
FSub(x, y) == FRound(x[1] * y[2] - y[1] * x[2], x[2] * y[2])   \* float - float
FZero == <<0, 1>>
FOne == <<1, 1>>

\* ------------------------------------------------------------ chain model
TsStep == LOOKBACK_SECONDS \div 3
TsValues == {TsBase + k * TsStep : k \in 0..MaxTick}

\* the chains with head h: block 0..h, timestamps non-decreasing
ChainsOfHead(h) ==
    {f \in [0..h -> TsValues] : \A b \in 1..h : f[b - 1] <= f[b]}
Chains == UNION {ChainsOfHead(h) : h \in 0..MaxHead}

\* blocks 1..10 with timestamps 100, 110, ..., 190 (block 0 is the genesis)
ScenarioBlocks == [b \in 0..10 |-> 90 + 10 * b]

TargetValues ==
    {TsBase + k * TsStep : k \in 0..(MaxTick + 1)} \cup {145}

Amounts == 0..MaxAmount

VARIABLES
    blocks,          \* the chain: block number -> timestamp
    vault,           \* contract state at the blocks read so far: block -> <<totalAssets, totalSupply>>
    pc,              \* position of main
    exc,             \* the exception that ended the run, "none" while there is none
    out,             \* what main has printed, in order
    latest_number, latest_ts, target_ts,
    fb_pc,           \* position of find_block_by_timestamp
    latest, low, high, best,
    fb_ret,          \* the value find_block_by_timestamp returned
    probes,          \* get_block(mid) calls issued by find_block_by_timestamp
    probe_failed,    \* a get_block(mid) call raised
    past_block_num, past_ts_actual,
    pps_block, total_assets, total_supply,   \* argument and locals of the last get_pps_at_block call
    pps_ret,         \* what that call returned, None when it raised
    pps_now, pps_past, change_ratio, change_pct, apr_7d_window,
    dt_seconds, days_interval, apr_real

chainVars == <<blocks, vault>>
mainCtl == <<pc, exc, out>>
mainHead == <<latest_number, latest_ts, target_ts>>
fbVars == <<fb_pc, latest, low, high, best, fb_ret, probes, probe_failed>>
pastVars == <<past_block_num, past_ts_actual>>
ppsVars == <<pps_block, total_assets, total_supply, pps_ret, pps_now, pps_past>>
aprVars == <<change_ratio, change_pct, apr_7d_window, dt_seconds, days_interval, apr_real>>
vars == <<chainVars, mainCtl, mainHead, fbVars, pastVars, ppsVars, aprVars>>
\* everything the run itself holds or has written
runVars == <<mainCtl, mainHead, fbVars, pastVars, ppsVars, aprVars>>

block_number == CHOOSE h \in DOMAIN blocks : \A b \in DOMAIN blocks : b <= h

\* The chain grows by one block whose timestamp is not before its parent's.
\* The head is read for the last time at line 60 and a block number, once
\* assigned, keeps its timestamp, so blocks appended after the locator has
\* ended or after the run has ended are seen by nothing and are left out.
AppendBlock ==
    /\ block_number < MaxHead
    /\ pc \notin {"done", "error", "exit1"}
    /\ fb_pc \notin {"returned", "error"}
    /\ \E t \in TsValues :
        /\ t >= blocks[block_number]
        /\ blocks' = [b \in 0..(block_number + 1) |-> IF b <= block_number THEN blocks[b] ELSE t]
    /\ UNCHANGED <<vault, mainCtl, mainHead, fbVars, pastVars, ppsVars, aprVars>>

\* ------------------------------------------------- find_block_by_timestamp
\* line 63
InitialBest_one(n) == 1
InitialBest(n) == n

\* line 66
Mid_low(lo, hi) == lo
Mid(lo, hi) == (lo + hi) \div 2

\* line 70
AtOrAfter_strict(ts, target) == ts > target
AtOrAfter_reversed(ts, target) == ts <= target
AtOrAfter(ts, target) == ts >= target

\* lines 60-63: latest = w3.eth.block_number; low = 1; high = latest; best = latest
FbStartStep(ok) ==
    /\ fb_pc = "start"
    /\ IF ok
       THEN /\ latest' = block_number
            /\ low' = 1
            /\ high' = block_number
            /\ best' = InitialBest(block_number)
            /\ fb_pc' = "loop"
            /\ UNCHANGED <<pc, exc>>
       ELSE /\ fb_pc' = "error"
            /\ exc' = "ChainQueryError"
            /\ pc' = IF pc = "find" THEN "error" ELSE pc
            /\ UNCHANGED <<latest, low, high, best>>
    /\ UNCHANGED <<chainVars, out, mainHead, fb_ret, probes, probe_failed,
                   pastVars, ppsVars, aprVars>>

FbStart == \E ok \in BOOLEAN : FbStartStep(ok)

\* a failed probe is swallowed and the current best is returned
FbProbeStep_swallow(ok) ==
    /\ fb_pc = "loop"
    /\ low <= high
    /\ probes' = probes + 1
    /\ LET mid == Mid(low, high)
           ts == blocks[mid]
       IN  IF ok
           THEN /\ IF AtOrAfter(ts, target_ts)
                   THEN /\ best' = mid
                        /\ high' = mid - 1
                        /\ low' = low
                   ELSE /\ low' = mid + 1
                        /\ UNCHANGED <<best, high>>
                /\ UNCHANGED <<fb_pc, probe_failed, fb_ret>>
           ELSE /\ probe_failed' = TRUE
                /\ fb_pc' = "returned"
                /\ fb_ret' = <<best>>
                /\ UNCHANGED <<low, high, best>>
    /\ UNCHANGED <<chainVars, mainCtl, mainHead, latest, pastVars, ppsVars, aprVars>>

\* lines 65-74: one iteration of the loop; ok is whether get_block(mid) answered
FbProbeStep(ok) ==
    /\ fb_pc = "loop"
    /\ low <= high
    /\ probes' = probes + 1
    /\ LET mid == Mid(low, high)
           ts == blocks[mid]
       IN  IF ok
           THEN /\ IF AtOrAfter(ts, target_ts)
                   THEN /\ best' = mid
                        /\ high' = mid - 1
                        /\ low' = low
                   ELSE /\ low' = mid + 1
                        /\ UNCHANGED <<best, high>>
                /\ UNCHANGED <<fb_pc, probe_failed, pc, exc>>
           ELSE /\ probe_failed' = TRUE
                /\ fb_pc' = "error"
                /\ exc' = "ChainQueryError"
                /\ pc' = IF pc = "find" THEN "error" ELSE pc
                /\ UNCHANGED <<low, high, best>>
    /\ UNCHANGED <<chainVars, out, mainHead, latest, fb_ret, pastVars, ppsVars, aprVars>>

FbProbe == \E ok \in BOOLEAN : FbProbeStep(ok)

\* line 76: return best
FbReturn ==
    /\ fb_pc = "loop"
    /\ low > high
    /\ fb_pc' = "returned"
    /\ fb_ret' = <<best>>
    /\ UNCHANGED <<chainVars, mainCtl, mainHead, latest, low, high, best, probes,
                   probe_failed, pastVars, ppsVars, aprVars>>

\* --------------------------------------------------------- locator alone
InitLocals ==
    /\ vault = <<>>
    /\ exc = "none"
    /\ out = <<>>
    /\ latest_number = 0 /\ latest_ts = 0
    /\ latest = 0 /\ low = 0 /\ high = 0 /\ best = 0
    /\ fb_ret = None
    /\ probes = 0
    /\ probe_failed = FALSE
    /\ past_block_num = None /\ past_ts_actual = None
    /\ pps_block = None /\ total_assets = None /\ total_supply = None
    /\ pps_ret = None
    /\ pps_now = None /\ pps_past = None
    /\ change_ratio = None /\ change_pct = None /\ apr_7d_window = None
    /\ dt_seconds = None /\ days_interval = None /\ apr_real = None

\* find_block_by_timestamp called on its own with any target
InitLocator ==
    /\ \/ blocks \in Chains
       \/ blocks = ScenarioBlocks
    /\ target_ts \in TargetValues
    /\ pc = "idle"
    /\ fb_pc = "start"
    /\ InitLocals

NextLocator == AppendBlock \/ FbStart \/ FbProbe \/ FbReturn

SpecLocator == InitLocator /\ [][NextLocator]_vars

\* ------------------------------------------------------- get_pps_at_block
\* fault variant: the zero check is made on the numerator
PpsResult_checkAssets(assets, supply) ==
    IF assets = 0
    THEN [raised |-> "UndefinedPrice", value |-> None]
    ELSE IF supply = 0
    THEN [raised |-> "ZeroDivisionError", value |-> None]
    ELSE [raised |-> "none", value |-> IntTrueDiv(assets, supply)]

\* lines 95-99: the check of total_supply and the division
PpsResult(assets, supply) ==
    IF supply = 0
    THEN [raised |-> "UndefinedPrice", value |-> None]
    ELSE [raised |-> "none", value |-> IntTrueDiv(assets, supply)]

\* the contract state a call at block b can read: what was read there before,
\* any amounts otherwise
VaultAt(b) ==
    IF b \in DOMAIN vault THEN {vault[b]} ELSE Amounts \X Amounts

\* lines 92-99, called with block_number = b; answered is how many of the two
\* view calls (totalAssets, then totalSupply) answered before one raised
GetPpsAtBlock(b, answered, st) ==
    /\ pps_block' = <<b>>
    /\ total_assets' = IF answered >= 1 THEN <<st[1]>> ELSE None
    /\ total_supply' = IF answered = 2 THEN <<st[2]>> ELSE None
    /\ IF answered = 2
       THEN /\ vault' = (b :> st) @@ vault
            /\ pps_ret' = PpsResult(st[1], st[2]).value
            /\ exc' = PpsResult(st[1], st[2]).raised
       ELSE /\ pps_ret' = None
            /\ exc' = "ChainQueryError"
            /\ UNCHANGED vault

\* ------------------------------------------------------------------- main
\* lines 121-126
Connect ==
    /\ pc = "connect"
    /\ \E ok \in BOOLEAN :
        IF ok
        THEN /\ pc' = "print_head"
             /\ out' = Append(out, "connected")
             /\ exc' = exc
        ELSE /\ pc' = "exit1"
             /\ out' = Append(out, "error_cannot_connect")
             /\ exc' = "ConnectivityError"
    /\ UNCHANGED <<chainVars, mainHead, fbVars, pastVars, ppsVars, aprVars>>

\* line 127
PrintHead ==
    /\ pc = "print_head"
    /\ \E ok \in BOOLEAN :
        IF ok
        THEN /\ pc' = "get_latest"
             /\ out' = Append(out, "latest_block_number")
             /\ exc' = exc
        ELSE /\ pc' = "error"
             /\ exc' = "ChainQueryError"
             /\ out' = out
    /\ UNCHANGED <<chainVars, mainHead, fbVars, pastVars, ppsVars, aprVars>>

\* lines 135-151: the latest block, the target timestamp, the call of the locator
GetLatest ==
    /\ pc = "get_latest"
    /\ \E ok \in BOOLEAN :
        IF ok
        THEN /\ latest_number' = block_number
             /\ latest_ts' = blocks[block_number]
             /\ target_ts' = blocks[block_number] - LOOKBACK_SECONDS
             /\ out' = out \o <<"latest_block", "target_timestamp">>
             /\ pc' = "find"
             /\ fb_pc' = "start"
             /\ exc' = exc
        ELSE /\ pc' = "error"
             /\ exc' = "ChainQueryError"
             /\ UNCHANGED <<latest_number, latest_ts, target_ts, out, fb_pc>>
    /\ UNCHANGED <<chainVars, latest, low, high, best, fb_ret, probes, probe_failed,
                   pastVars, ppsVars, aprVars>>

\* lines 151-159: the locator's result, the past block and its timestamp
GetPast ==
    /\ pc = "find"
    /\ fb_pc = "returned"
    /\ past_block_num' = fb_ret
    /\ \E ok \in BOOLEAN :
        IF ok
        THEN /\ past_ts_actual' = <<blocks[fb_ret[1]]>>
             /\ out' = Append(out, "past_block")
             /\ pc' = "pps_now"
             /\ exc' = exc
        ELSE /\ pc' = "error"
             /\ exc' = "ChainQueryError"
             /\ UNCHANGED <<past_ts_actual, out>>
    /\ UNCHANGED <<chainVars, mainHead, fbVars, ppsVars, aprVars>>

\* line 162
GetPpsNow ==
    /\ pc = "pps_now"
    /\ \E answered \in 0..2, st \in VaultAt(latest_number) :
        /\ GetPpsAtBlock(latest_number, answered, st)
        /\ pps_now' = pps_ret'
        /\ pc' = IF exc' = "none" THEN "pps_past" ELSE "error"
    /\ UNCHANGED <<blocks, out, mainHead, fbVars, pastVars, pps_past, aprVars>>

\* line 163
GetPpsPast ==
    /\ pc = "pps_past"
    /\ \E answered \in 0..2, st \in VaultAt(past_block_num[1]) :
        /\ GetPpsAtBlock(past_block_num[1], answered, st)
        /\ pps_past' = pps_ret'
        /\ pc' = IF exc' = "none" THEN "ratio" ELSE "error"
    /\ UNCHANGED <<blocks, out, mainHead, fbVars, pastVars, pps_now, aprVars>>

\* lines 168-169
ChangeRatio(now, past) == FDiv(now, past)
ChangePct(ratio) == FMul(FSub(ratio, FLit(1)), FLit(100))

\* fault variant: the "- 1.0" is left out
Apr7dWindow_noBase(ratio) ==
    LET yearly_factor_7d == FDiv(FLit(365), FLit(LOOKBACK_DAYS))
    IN  FMul(FMul(ratio, yearly_factor_7d), FLit(100))

\* lines 172-173
Apr7dWindow(ratio) ==
    LET yearly_factor_7d == FDiv(FLit(365), FLit(LOOKBACK_DAYS))
    IN  FMul(FMul(FSub(ratio, FLit(1)), yearly_factor_7d), FLit(100))

\* line 180
DaysInterval(dt) == IntTrueDiv(dt, SECONDS_PER_DAY)

\* lines 181-182
AprReal(ratio, days) ==
    LET yearly_factor_real == FDiv(FLit(365), days)
    IN  FMul(FMul(FSub(ratio, FLit(1)), yearly_factor_real), FLit(100))

\* fault variant: the PPS section of the report is printed as soon as it is known
ComputeRatio_printsEarly ==
    /\ pc = "ratio"
    /\ IF pps_past = FZero
       THEN /\ pc' = "error"
            /\ exc' = "UndefinedPrice"
            /\ UNCHANGED <<change_ratio, change_pct, apr_7d_window, out>>
       ELSE /\ change_ratio' = ChangeRatio(pps_now, pps_past)
            /\ change_pct' = ChangePct(change_ratio')
            /\ apr_7d_window' = Apr7dWindow(change_ratio')
            /\ out' = out \o <<"pps_now", "pps_past", "change_pct">>
            /\ pc' = "real"
            /\ exc' = exc
    /\ UNCHANGED <<chainVars, mainHead, fbVars, pastVars, ppsVars,
                   dt_seconds, days_interval, apr_real>>

\* lines 165-173
ComputeRatio ==
    /\ pc = "ratio"
    /\ IF pps_past = FZero
       THEN /\ pc' = "error"
            /\ exc' = "UndefinedPrice"
            /\ UNCHANGED <<change_ratio, change_pct, apr_7d_window>>
       ELSE /\ change_ratio' = ChangeRatio(pps_now, pps_past)
            /\ change_pct' = ChangePct(change_ratio')
            /\ apr_7d_window' = Apr7dWindow(change_ratio')
            /\ pc' = "real"
            /\ exc' = exc
    /\ UNCHANGED <<chainVars, out, mainHead, fbVars, pastVars, ppsVars,
                   dt_seconds, days_interval, apr_real>>

\* fault variant: only a negative interval is rejected, a zero one divides by zero
ComputeReal_zeroAllowed ==
    /\ pc = "real"
    /\ dt_seconds' = <<latest_ts - past_ts_actual[1]>>
    /\ IF dt_seconds'[1] < 0
       THEN /\ pc' = "error"
            /\ exc' = "NonPositiveInterval"
            /\ UNCHANGED <<days_interval, apr_real>>
       ELSE IF dt_seconds'[1] = 0
       THEN /\ days_interval' = FZero
            /\ pc' = "error"
            /\ exc' = "ZeroDivisionError"
            /\ UNCHANGED apr_real
       ELSE /\ days_interval' = DaysInterval(dt_seconds'[1])
            /\ apr_real' = AprReal(change_ratio, days_interval')
            /\ pc' = "report"
            /\ exc' = exc
    /\ UNCHANGED <<chainVars, out, mainHead, fbVars, pastVars, ppsVars,
                   change_ratio, change_pct, apr_7d_window>>

\* lines 176-182
ComputeReal ==
    /\ pc = "real"
    /\ dt_seconds' = <<latest_ts - past_ts_actual[1]>>
    /\ IF dt_seconds'[1] <= 0
       THEN /\ pc' = "error"
            /\ exc' = "NonPositiveInterval"
            /\ UNCHANGED <<days_interval, apr_real>>
       ELSE /\ days_interval' = DaysInterval(dt_seconds'[1])
            /\ apr_real' = AprReal(change_ratio, days_interval')
            /\ pc' = "report"
            /\ exc' = exc
    /\ UNCHANGED <<chainVars, out, mainHead, fbVars, pastVars, ppsVars,
                   change_ratio, change_pct, apr_7d_window>>

\* the values the report prints, in order: lines 185, 186, 187, 190, 193, 194
ReportLines ==
    <<"pps_now", "pps_past", "change_pct", "apr_7d_window", "days_interval", "apr_real">>
HeaderLines ==
    <<"connected", "latest_block_number", "latest_block", "target_timestamp", "past_block">>

\* lines 184-198: one report value per step
PrintReport ==
    /\ pc = "report"
    /\ LET k == Len(out) - Len(HeaderLines) + 1
       IN  /\ out' = Append(out, ReportLines[k])
           /\ pc' = IF k = Len(ReportLines) THEN "done" ELSE "report"
    /\ UNCHANGED <<chainVars, exc, mainHead, fbVars, pastVars, ppsVars, aprVars>>

Init ==
    /\ blocks \in Chains
    /\ target_ts = 0
    /\ pc = "connect"
    /\ fb_pc = "idle"
    /\ InitLocals

Next ==
    \/ AppendBlock
    \/ Connect \/ PrintHead \/ GetLatest
    \/ FbStart \/ FbProbe \/ FbReturn
    \/ GetPast \/ GetPpsNow \/ GetPpsPast
    \/ ComputeRatio \/ ComputeReal \/ PrintReport

Spec == Init /\ [][Next]_vars

\* ------------------------------------------------ APR computation alone
\* the floats get_pps_at_block can return
PpsValues ==
    {IntTrueDiv(a, s) : a \in 0..AprMaxAmount, s \in 1..AprMaxAmount}

\* lines 165-198 entered with any two PPS values and any two block timestamps
InitApr ==
    /\ blocks = [b \in 0..0 |-> TsBase]
    /\ vault = <<>>
    /\ pc = "ratio"
    /\ exc = "none"
    /\ out = HeaderLines
    /\ latest_number = 0
    /\ latest_ts \in TsValues
    /\ target_ts = latest_ts - LOOKBACK_SECONDS
    /\ fb_pc = "returned"
    /\ latest = 0 /\ low = 1 /\ high = 0 /\ best = 0
    /\ fb_ret = <<0>>
    /\ probes = 0
    /\ probe_failed = FALSE
    /\ past_block_num = <<0>>
    /\ past_ts_actual \in {<<t>> : t \in TsValues}
    /\ pps_block = None /\ total_assets = None /\ total_supply = None
    /\ pps_ret = None
    /\ pps_now \in PpsValues
    /\ pps_past \in PpsValues
    /\ change_ratio = None /\ change_pct = None /\ apr_7d_window = None
    /\ dt_seconds = None /\ days_interval = None /\ apr_real = None

NextApr == ComputeRatio \/ ComputeReal \/ PrintReport

SpecApr == InitApr /\ [][NextApr]_vars

\* =================================================================== claims
RECURSIVE Bits(_)
\* the number of binary digits of n: 0 for 0, floor(log2(n)) + 1 otherwise
Bits(n) == IF n = 0 THEN 0 ELSE 1 + Bits(n \div 2)

\* ceil(log2(n)) for n >= 1
CeilLog2(n) == Bits(n - 1)

Printed == {out[i] : i \in 1..Len(out)}
ReportValues == {ReportLines[i] : i \in 1..Len(ReportLines)}
Terminal == {"done", "error", "exit1"}

\* b is the smallest block of 1..n whose timestamp is at or after target
IsFirstAtOrAfter(b, n, target) ==
    /\ b \in 1..n
    /\ blocks[b] >= target
    /\ \A b2 \in 1..(b - 1) : blocks[b2] < target

\* C1: with latest >= 1 and a target not after the latest block's timestamp, the
\* locator returns the smallest block of 1..latest whose timestamp is at or
\* after the target; that is block 1 when the target is not after block 1's
\* timestamp, and block 6 for timestamps 100, 110, ..., 190 and target 145.
C1_LowerBound ==
    (fb_pc = "returned" /\ latest >= 1 /\ target_ts <= blocks[latest]) =>
        /\ IsFirstAtOrAfter(fb_ret[1], latest, target_ts)
        /\ (target_ts <= blocks[1] => fb_ret = <<1>>)
        /\ (blocks = ScenarioBlocks /\ target_ts = 145 => fb_ret = <<6>>)

C1_Witness ==
    /\ fb_pc = "returned"
    /\ blocks = ScenarioBlocks
    /\ target_ts = 145
    /\ fb_ret = <<6>>

C3_AllOrNothing ==
    /\ [](pc \in Terminal =>
            /\ (Printed \cap ReportValues = {} \/ ReportValues \subseteq Printed)
            /\ ((pc # "done" \/ exc # "none") => Printed \cap ReportValues = {})
            /\ (pc = "done" => ReportValues \subseteq Printed /\ exc = "none"))
    /\ [][(pc \in Terminal) => (runVars' = runVars)]_vars

C3_Witness ==
    /\ pc = "error"
    /\ exc = "NonPositiveInterval"
    /\ apr_7d_window # None
    /\ Printed \cap ReportValues = {}

\* C4: a call of get_pps_at_block that read totalSupply raised the
\* undefined-price error and returned nothing when it read 0, whatever
\* totalAssets it read, and returned totalAssets / totalSupply otherwise.
C4_UndefinedPrice ==
    total_supply # None =>
        /\ vault[pps_block[1]] = <<total_assets[1], total_supply[1]>>
        /\ (total_supply[1] = 0 =>
                pps_ret = None /\ exc = "UndefinedPrice" /\ pc = "error")
        /\ (total_supply[1] # 0 =>
                /\ pps_ret = IntTrueDiv(total_assets[1], total_supply[1])
                /\ (pc \in {"pps_past", "ratio"} => exc = "none"))

C4_Witness ==
    /\ total_supply = <<0>>
    /\ total_assets = <<1>>
    /\ exc = "UndefinedPrice"
    /\ pps_ret = None

\* C5: once dt_seconds is computed and is <= 0, the run has ended in the
\* non-positive-interval error and neither days_interval nor apr_real exists.
C5_NonPositiveInterval ==
    (dt_seconds # None /\ dt_seconds[1] <= 0) =>
        /\ pc = "error"
        /\ exc = "NonPositiveInterval"
        /\ days_interval = None
        /\ apr_real = None

C5_Witness ==
    /\ dt_seconds = <<0>>
    /\ change_ratio # None
    /\ exc = "NonPositiveInterval"

\* C6: with pps_now equal to pps_past (and not zero), change_ratio is exactly
\* 1 and apr_7d_window and apr_real are exactly 0.
C6_EqualPps ==
    (pps_now = pps_past) =>
        /\ (change_ratio # None => change_ratio = FOne /\ apr_7d_window = FZero)
        /\ (apr_real # None => apr_real = FZero)

C6_Witness ==
    /\ pps_now = IntTrueDiv(1, 3)
    /\ pps_past = IntTrueDiv(1, 3)
    /\ dt_seconds # None
    /\ dt_seconds[1] > 0
    /\ apr_real = FZero

\* C7 as stated: the probes never exceed ceil(log2(latest)).
C7_CeilLog2 ==
    latest >= 1 => probes <= CeilLog2(latest)

\* C7 as amended: the probes never exceed floor(log2(latest)) + 1 (none at all
\* for latest = 0), and inside the loop the probes made plus the binary digits
\* of the interval still to search never exceed that bound, so every probe
\* brings the loop closer to its end.
C7_FloorLog2PlusOne ==
    /\ probes <= Bits(latest)
    /\ (fb_pc = "loop" /\ low <= high =>
            probes + Bits(high - low + 1) <= Bits(latest))
    /\ (fb_pc = "loop" /\ low > high => probes <= Bits(latest))

C7_Witness ==
    /\ fb_pc = "returned"
    /\ latest >= 2
    /\ probes = Bits(latest)
    /\ probes > CeilLog2(latest)

\* C8: once a get_block(mid) call has failed, the locator is in its error
\* state with nothing returned, and it issues no further probe.
C8_ProbeFailureAborts ==
    /\ [](probe_failed =>
            fb_pc = "error" /\ fb_ret = None /\ exc = "ChainQueryError")
    /\ [][probe_failed => (probes' = probes /\ fb_pc' = fb_pc)]_vars

C8_Witness ==
    /\ probe_failed
    /\ fb_pc = "error"
    /\ probes >= 2
    /\ best # latest
    /\ fb_ret = None

====
